---- MODULE Spec2Model ----
(***************************************************************************)
(* bcrc: the Lua binding to boost/crc (src/bcrc.cpp).                      *)
(*                                                                         *)
(* The model has three layers, as the source has:                          *)
(*   - the CRC arithmetic of boost::crc_basic<Bits> and                    *)
(*     boost::crc_optimal<...> that CrcBasic and CrcOptimal delegate to    *)
(*     (src/bcrc.cpp:55, 76, 119), on registers that are bit vectors of    *)
(*     the width of the C++ value_type;                                    *)
(*   - the Lua C functions bcrc_new ... bcrc_gc, each an operator from a   *)
(*     Lua state (userdata heap + argument stack) to the Lua state it      *)
(*     leaves, the number of results and the error it raised;              *)
(*   - the calls a Lua script can make, one action per call.               *)
(*                                                                         *)
(* Numbers.  A Lua number that holds an integer is kept as two limbs,      *)
(* [hi, lo] = hi * 2^16 + lo with lo in 0..65535, so that 0xFFFFFFFF and   *)
(* 32-bit checksums are representable.  A C int is an integer in           *)
(* -2^31 .. 2^31-1.  A register is a sequence of bits, least significant   *)
(* bit first: x[i] is bit i-1.                                             *)
(***************************************************************************)
EXTENDS Integers, Sequences, FiniteSets, TLC

VARIABLES ud, fed, ret

vars == <<ud, fed, ret>>

----------------------------------------------------------------------------
(* Lua numbers and C integers *)

Num(hi, lo) == [hi |-> hi, lo |-> lo]

NumOf(i) == Num(i \div 65536, i % 65536)

\* lua_Integer is ptrdiff_t; the model's positions are far inside its range
ToInteger(n) == n.hi * 65536 + n.lo

\* luaL_checkint / luaL_optint: (int) of the lua_Integer, i.e. the value
\* reduced modulo 2^32 into -2^31 .. 2^31-1
ToInt(n) == (((n.hi + 32768) % 65536) - 32768) * 65536 + n.lo

----------------------------------------------------------------------------
(* Bit vectors: the unsigned value_type of boost's CRC classes *)

\* mask_uint_t<Bits>::least / ::fast on the usual ABI: unsigned char,
\* unsigned short, unsigned int
ValueBits(Bits) == IF Bits <= 8 THEN 8 ELSE IF Bits <= 16 THEN 16 ELSE 32

\* a bit vector built pointwise, as a tuple
Vec(f) == f \o <<>>

\* bit k of the two's complement C int n
IntBit(n, k) == IF k = 31 THEN (IF n < 0 THEN 1 ELSE 0) ELSE (n \div (2 ^ k)) % 2

\* conversion of a C int to an unsigned type of W bits
ToValue(n, W) == Vec([i \in 1..W |-> IntBit(n, i - 1)])

ByteBits(b) == Vec([i \in 1..8 |-> (b \div (2 ^ (i - 1))) % 2])

RECURSIVE BitsVal(_, _, _)
\* the integer held in the n bits of x from index from upwards
BitsVal(x, from, n) ==
  IF n = 0 THEN 0
  ELSE (IF from <= Len(x) THEN x[from] ELSE 0) + 2 * BitsVal(x, from + 1, n - 1)

Xor(a, b) ==
  Vec([i \in 1..Len(a) |-> (a[i] + (IF i <= Len(b) THEN b[i] ELSE 0)) % 2])

Zeros(k) == SubSeq(<<0, 0, 0, 0, 0, 0, 0, 0>>, 1, k)

\* a << k and a >> k in the width of a, for k <= 8 <= Len(a)
Shl(a, k) == Zeros(k) \o SubSeq(a, 1, Len(a) - k)

Shr(a, k) == SubSeq(a, k + 1, Len(a)) \o Zeros(k)

\* masking_type::sig_bits
SigBits(Bits, x) == Vec([i \in 1..Len(x) |-> IF i <= Bits THEN x[i] ELSE 0])

\* x ^ masking_type::high_bit
FlipBit(x, Bits) == [x EXCEPT ![Bits] = 1 - @]

\* detail::reflector<Bits>::reflect: the low Bits bits reversed, zero above
reflect(Bits, x) ==
  Vec([i \in 1..Len(x) |-> IF i <= Bits THEN x[Bits + 1 - i] ELSE 0])

\* detail::crc_helper<Bits, DoReflect>::reflect
helper_reflect(Bits, DoReflect, x) == IF DoReflect THEN reflect(Bits, x) ELSE x

----------------------------------------------------------------------------
(* boost::crc_basic<Bits>, the engine behind CrcBasic<Bits> *)

\* A userdata slot: the Crc* it holds and the object behind it.  st is "none"
\* (no userdata allocated), "NULL" (*ud = NULL) or "obj" (*ud points to the
\* object the other fields describe); ref says whether the script holds a
\* reference to the userdata.  NoCrc is a slot that holds no object.
NoCrc(st) ==
  [st |-> st, cls |-> "", type |-> "", Bits |-> 0, poly |-> <<>>, init |-> <<>>,
   final |-> <<>>, rft_in |-> FALSE, rft_out |-> FALSE, rem |-> <<>>,
   ref |-> FALSE]

\* CrcBasic<Bits>(int, int, int, bool, bool): the ints become value_type
CrcBasic(Bits, truncated_polynominal, initial_remainder, final_xor_value, reflect_input, reflect_remainder) ==
  LET W == ValueBits(Bits) IN
  [st |-> "obj", cls |-> "CrcBasic", type |-> "crc_basic", Bits |-> Bits,
   poly |-> ToValue(truncated_polynominal, W),
   init |-> ToValue(initial_remainder, W),
   final |-> ToValue(final_xor_value, W),
   rft_in |-> reflect_input, rft_out |-> reflect_remainder,
   rem |-> ToValue(initial_remainder, W), ref |-> FALSE]

\* crc_basic::process_bit
crc_basic_process_bit(c, bit) ==
  LET r1 == IF bit = 1 THEN FlipBit(c.rem, c.Bits) ELSE c.rem
      do_poly_div == r1[c.Bits] = 1
      r2 == Shl(r1, 1)
  IN [c EXCEPT !.rem = IF do_poly_div THEN Xor(r2, c.poly) ELSE r2]

RECURSIVE crc_basic_process_bits(_, _, _)
\* crc_basic::process_bits: the upper bits first
crc_basic_process_bits(c, bits, bit_count) ==
  IF bit_count = 0 THEN c
  ELSE crc_basic_process_bits(crc_basic_process_bit(c, bits[8]), Shl(bits, 1),
                              bit_count - 1)

\* crc_basic::process_byte
crc_basic_process_byte(c, byte) ==
  crc_basic_process_bits(
    c, IF c.rft_in THEN reflect(8, ByteBits(byte)) ELSE ByteBits(byte), 8)

RECURSIVE crc_basic_process_block(_, _, _)
\* crc_basic::process_block, bytes[i..] in order
crc_basic_process_block(c, bytes, i) ==
  IF i > Len(bytes) THEN c
  ELSE LET c1 == crc_basic_process_byte(c, bytes[i])
       IN IF c1.rem = <<>> THEN c1  \* (never: the register is evaluated here)
          ELSE crc_basic_process_block(c1, bytes, i + 1)

\* crc_basic::reset(): rem_ = init_
crc_basic_reset(c) == [c EXCEPT !.rem = c.init]

\* crc_basic::checksum
crc_basic_checksum(c) ==
  SigBits(c.Bits,
          Xor(IF c.rft_out THEN reflect(c.Bits, c.rem) ELSE c.rem, c.final))

----------------------------------------------------------------------------
(* boost::crc_optimal<Bits, TruncPoly, InitRem, FinalXor, ReflectIn,        *)
(* ReflectRem>, the engine behind CrcOptimal<Optimal>                       *)

\* the four Optimal types of the library table and their template arguments
crc_16_type ==
  [type |-> "crc_16_type", Bits |-> 16, TruncPoly |-> Num(0, 32773),
   InitRem |-> Num(0, 0), FinalXor |-> Num(0, 0),
   ReflectIn |-> TRUE, ReflectRem |-> TRUE]

\* faulty variant: crc_ccitt_type with a zero initial remainder
crc_ccitt_type_init0 ==
  [type |-> "crc_ccitt_type", Bits |-> 16, TruncPoly |-> Num(0, 4129),
   InitRem |-> Num(0, 0), FinalXor |-> Num(0, 0),
   ReflectIn |-> FALSE, ReflectRem |-> FALSE]

crc_ccitt_type ==
  [type |-> "crc_ccitt_type", Bits |-> 16, TruncPoly |-> Num(0, 4129),
   InitRem |-> Num(0, 65535), FinalXor |-> Num(0, 0),
   ReflectIn |-> FALSE, ReflectRem |-> FALSE]

crc_xmodem_type ==
  [type |-> "crc_xmodem_type", Bits |-> 16, TruncPoly |-> Num(0, 33800),
   InitRem |-> Num(0, 0), FinalXor |-> Num(0, 0),
   ReflectIn |-> TRUE, ReflectRem |-> TRUE]

crc_32_type ==
  [type |-> "crc_32_type", Bits |-> 32, TruncPoly |-> Num(1217, 7607),
   InitRem |-> Num(65535, 65535), FinalXor |-> Num(65535, 65535),
   ReflectIn |-> TRUE, ReflectRem |-> TRUE]

\* CrcOptimal<Optimal>(): crc_optimal(InitRem), rem_ = helper_type::reflect(InitRem)
CrcOptimal(Optimal) ==
  LET W == ValueBits(Optimal.Bits)
      InitRem == ToValue(ToInt(Optimal.InitRem), W)
  IN [st |-> "obj", cls |-> "CrcOptimal", type |-> Optimal.type,
      Bits |-> Optimal.Bits,
      poly |-> ToValue(ToInt(Optimal.TruncPoly), W),
      init |-> InitRem,
      final |-> ToValue(ToInt(Optimal.FinalXor), W),
      rft_in |-> Optimal.ReflectIn, rft_out |-> Optimal.ReflectRem,
      rem |-> helper_reflect(Optimal.Bits, Optimal.ReflectIn, InitRem),
      ref |-> FALSE]

RECURSIVE init_table_remainder(_, _, _, _, _)
\* crc_table_t::init_table, the loop over the dividend's bits from the highest
init_table_remainder(Bits, TruncPoly, dividend, k, remainder) ==
  IF k = 0 THEN remainder
  ELSE LET r1 == IF dividend[k] = 1 THEN FlipBit(remainder, Bits) ELSE remainder
           r2 == IF r1[Bits] = 1 THEN Xor(Shl(r1, 1), TruncPoly) ELSE Shl(r1, 1)
       IN init_table_remainder(Bits, TruncPoly, dividend, k - 1, r2)

\* faulty variant: init_table that stores a reflected remainder at the dividend
\* itself instead of at the reflected dividend
init_table_entry_at_dividend(Bits, TruncPoly, Reflect, index) ==
  LET zero == Vec([i \in 1..Len(TruncPoly) |-> 0])
  IN helper_reflect(Bits, Reflect,
                    init_table_remainder(Bits, TruncPoly, ByteBits(index), 8, zero))

\* What crc_table_t<Bits, TruncPoly, Reflect>::init_table stores in
\* table_[index]: it stores a dividend's remainder, reflected, at index
\* reflect(dividend); reflecting twice is the identity, so index holds the
\* entry of dividend reflect(index).
init_table_entry(Bits, TruncPoly, Reflect, index) ==
  LET dividend == helper_reflect(8, Reflect, ByteBits(index))
      zero == Vec([i \in 1..Len(TruncPoly) |-> 0])
  IN helper_reflect(Bits, Reflect,
                    init_table_remainder(Bits, TruncPoly, dividend, 8, zero))

\* crc_table_t<Bits, TruncPoly, Reflect>::table_ of an Optimal type, filled
\* once; entry i + 1 is table_[i]
init_table(Optimal) ==
  Vec([i \in 1..256 |->
         init_table_entry(Optimal.Bits,
                          ToValue(ToInt(Optimal.TruncPoly), ValueBits(Optimal.Bits)),
                          Optimal.ReflectIn, i - 1)])

\* each instantiation of crc_table_t has a table of its own
table_crc_16 == init_table(crc_16_type)

table_crc_ccitt == init_table(crc_ccitt_type)

table_crc_xmodem == init_table(crc_xmodem_type)

table_crc_32 == init_table(crc_32_type)

\* crc_table_type::table_[index] of the engine's type
crc_table(type, index) ==
  IF type = "crc_16_type" THEN table_crc_16[index + 1]
  ELSE IF type = "crc_ccitt_type" THEN table_crc_ccitt[index + 1]
  ELSE IF type = "crc_xmodem_type" THEN table_crc_xmodem[index + 1]
  ELSE table_crc_32[index + 1]

\* crc_helper<Bits, DoReflect>::index: an unsigned char
helper_index(Bits, DoReflect, rem, x) ==
  IF DoReflect THEN BitsVal(Xor(ByteBits(x), rem), 1, 8)
  ELSE BitsVal(Xor(ByteBits(x), Shr(rem, IF Bits > 8 THEN Bits - 8 ELSE 0)), 1, 8)

\* crc_helper<Bits, DoReflect>::shift
helper_shift(DoReflect, rem) == IF DoReflect THEN Shr(rem, 8) ELSE Shl(rem, 8)

\* one round of crc_optimal::process_block's loop
crc_optimal_process_byte(c, byte) ==
  LET byte_index == helper_index(c.Bits, c.rft_in, c.rem, byte)
  IN [c EXCEPT !.rem = Xor(helper_shift(c.rft_in, c.rem),
                           crc_table(c.type, byte_index))]

RECURSIVE crc_optimal_process_block(_, _, _)
\* crc_optimal::process_block, bytes[i..] in order
crc_optimal_process_block(c, bytes, i) ==
  IF i > Len(bytes) THEN c
  ELSE LET c1 == crc_optimal_process_byte(c, bytes[i])
       IN IF c1.rem = <<>> THEN c1  \* (never: the register is evaluated here)
          ELSE crc_optimal_process_block(c1, bytes, i + 1)

\* crc_optimal::reset(): rem_ = helper_type::reflect(InitRem)
crc_optimal_reset(c) ==
  [c EXCEPT !.rem = helper_reflect(c.Bits, c.rft_in, c.init)]

\* crc_optimal::checksum: reflect_out_type is crc_helper<Bits, ReflectRem != ReflectIn>
crc_optimal_checksum(c) ==
  SigBits(c.Bits,
          Xor(helper_reflect(c.Bits, c.rft_out # c.rft_in, c.rem), c.final))

----------------------------------------------------------------------------
(* The Crc interface: virtual dispatch to the wrapper's engine *)

(* (A call through a pointer to no object has no defined behaviour; the    *)
(* C functions never make one, and the operators leave such a slot as is.) *)

Crc_reset(c) ==
  IF c.cls = "CrcBasic" THEN crc_basic_reset(c)
  ELSE IF c.cls = "CrcOptimal" THEN crc_optimal_reset(c)
  ELSE c

\* faulty variant: process_bytes that starts every call from the initial remainder
Crc_process_bytes_restarting(c, buffer) ==
  IF c.cls = "CrcBasic" THEN crc_basic_process_block(crc_basic_reset(c), buffer, 1)
  ELSE IF c.cls = "CrcOptimal"
  THEN crc_optimal_process_block(crc_optimal_reset(c), buffer, 1)
  ELSE c

Crc_process_bytes(c, buffer) ==
  IF c.cls = "CrcBasic" THEN crc_basic_process_block(c, buffer, 1)
  ELSE IF c.cls = "CrcOptimal" THEN crc_optimal_process_block(c, buffer, 1)
  ELSE c

Crc_checksum(c) ==
  IF c.cls = "CrcBasic" THEN crc_basic_checksum(c)
  ELSE IF c.cls = "CrcOptimal" THEN crc_optimal_checksum(c)
  ELSE <<>>

----------------------------------------------------------------------------
(* Lua values, the Lua state seen by a C function, and what a call leaves *)

LNil == [t |-> "nil", n |-> Num(0, 0), s |-> <<>>, h |-> 0, b |-> FALSE]

LNum(n) == [LNil EXCEPT !.t = "number", !.n = n]

LInt(i) == LNum(NumOf(i))

LStr(s) == [LNil EXCEPT !.t = "string", !.s = s]

LBool(b) == [LNil EXCEPT !.t = "boolean", !.b = b]

LUd(h) == [LNil EXCEPT !.t = "userdata", !.h = h]

Handles == {1, 2}

\* The Lua state of one call of a C function: the userdata heap, the
\* non-empty byte ranges each engine was handed, in order, since it was built
\* or last reset (instrumentation of ud->process_bytes and ud->reset),
\* whether process_bytes was handed memory outside the argument string, and
\* the stack (the arguments first).
LuaState(u, f, args) == [ud |-> u, fed |-> f, oob |-> FALSE, stack |-> args]

\* a C function returning nres results
Return(L, nres) == [L |-> L, err |-> "", nres |-> nres]

\* lua_error / luaL_argerror: the call is abandoned, what was done stays done
Raise(L, msg) == [L |-> L, err |-> msg, nres |-> 0]

\* the value at a stack index, nil when there is none
Arg(L, narg) == IF narg <= Len(L.stack) THEN L.stack[narg] ELSE LNil

DestroyedHandle == "bcrc state has been destroyed"

UnsupportedWidth == "unsupported crc bit width"

TypeError == "bad argument type"

\* luaL_checkint: a number, as a C int
luaL_checkint(L, narg) == ToInt(Arg(L, narg).n)

\* luaL_optint
luaL_optint(L, narg, def) ==
  IF Arg(L, narg).t = "nil" THEN def ELSE luaL_checkint(L, narg)

\* luaL_optinteger
luaL_optinteger(L, narg, def) ==
  IF Arg(L, narg).t = "nil" THEN def ELSE ToInteger(Arg(L, narg).n)

\* lua_toboolean: false for false and nil, true for anything else
lua_toboolean(L, narg) ==
  ~ (Arg(L, narg).t = "nil" \/ (Arg(L, narg).t = "boolean" /\ ~Arg(L, narg).b))

\* whether Lua's own argument checks pass: numbers where the C function
\* asks for a number (a missing optional one may be nil)
IsNumber(L, narg) == Arg(L, narg).t = "number"

IsOptNumber(L, narg) == Arg(L, narg).t \in {"number", "nil"}

----------------------------------------------------------------------------
(* src/bcrc.cpp, the C functions *)

\* faulty variant: posrelat that counts a negative position from the last byte
posrelat_from_last(pos, len) ==
  LET pos1 == IF pos < 0 THEN pos + len ELSE pos
  IN IF pos1 >= 0 THEN pos1 ELSE 0

posrelat(pos, len) ==
  LET pos1 == IF pos < 0 THEN pos + len + 1 ELSE pos
  IN IF pos1 >= 0 THEN pos1 ELSE 0

\* The pointer v_checksubstring returns is base + (first - 1) with *lp = lp;
\* base is the argument string, or the literal "" (<<>>) for an empty range.
v_checksubstring(L, narg) ==
  IF Arg(L, narg).t # "string" \/ ~IsOptNumber(L, narg + 1)
     \/ ~IsOptNumber(L, narg + 2)
  THEN [err |-> TypeError, base |-> <<>>, first |-> 1, lp |-> 0]
  ELSE
    LET s == Arg(L, narg).s
        l == Len(s)
        start == posrelat(luaL_optinteger(L, narg + 1, 1), l)
        end == posrelat(luaL_optinteger(L, narg + 2, -1), l)
        start1 == IF start < 1 THEN 1 ELSE start
        end1 == IF end > l THEN l ELSE end
    IN IF start1 <= end1
       THEN [err |-> "", base |-> s, first |-> start1, lp |-> end1 - start1 + 1]
       ELSE [err |-> "", base |-> <<>>, first |-> 1, lp |-> 0]

\* what process_bytes(bytes, size) reads: size bytes from the pointer on; a
\* byte outside the string is memory the string does not own (read as 0 and
\* reported by InBounds)
Memory(sub) ==
  [i \in 1..sub.lp |->
     IF sub.first + i - 1 \in 1..Len(sub.base)
     THEN sub.base[sub.first + i - 1] ELSE 0] \o <<>>

InBounds(sub) ==
  sub.lp = 0 \/ (1 <= sub.first /\ sub.first + sub.lp - 1 <= Len(sub.base))

\* faulty variant: checkudata without the luaL_argcheck of *ud
checkudata_unchecked(L) == IF Arg(L, 1).t # "userdata" THEN TypeError ELSE ""

\* checkudata: luaL_checkudata, then luaL_argcheck(L, *ud, 1, ...)
checkudata(L) ==
  IF Arg(L, 1).t # "userdata" THEN TypeError
  ELSE IF L.ud[Arg(L, 1).h].st # "obj" THEN DestroyedHandle
  ELSE ""

\* newudata: a new userdata holding NULL, pushed on the stack
newudata(L) ==
  LET h == CHOOSE x \in Handles :
             L.ud[x].st = "none" /\ \A y \in Handles : L.ud[y].st = "none" => x <= y
  IN [L EXCEPT !.ud[h] = NoCrc("NULL"), !.fed[h] = <<>>, !.stack = Append(@, LUd(h))]

\* the userdata newudata left on top of the stack
Top(L) == L.stack[Len(L.stack)]

\* faulty variant: bcrc_new whose switch builds a 32-bit engine by default
bcrc_new_default32(L) ==
  IF ~IsNumber(L, 1) \/ ~IsNumber(L, 2) \/ ~IsOptNumber(L, 3) \/ ~IsOptNumber(L, 4)
  THEN Raise(L, TypeError)
  ELSE
    LET bits == luaL_checkint(L, 1)
        L1 == newudata(L)
        h == Top(L1).h
    IN Return([L1 EXCEPT !.ud[h] =
                 CrcBasic(IF bits \in {8, 16, 24, 32} THEN bits ELSE 32,
                          luaL_checkint(L, 2), luaL_optint(L, 3, 0),
                          luaL_optint(L, 4, 0), lua_toboolean(L, 5),
                          lua_toboolean(L, 6))],
              1)

bcrc_new(L) ==
  IF ~IsNumber(L, 1) \/ ~IsNumber(L, 2) \/ ~IsOptNumber(L, 3) \/ ~IsOptNumber(L, 4)
  THEN Raise(L, TypeError)
  ELSE
    LET bits == luaL_checkint(L, 1)
        poly == luaL_checkint(L, 2)
        initial == luaL_optint(L, 3, 0)
        xor_ == luaL_optint(L, 4, 0)
        reflect_input == lua_toboolean(L, 5)
        reflect_remainder == lua_toboolean(L, 6)
        L1 == newudata(L)
        h == Top(L1).h
    IN IF bits \in {8, 16, 24, 32}
       THEN Return([L1 EXCEPT !.ud[h] = CrcBasic(bits, poly, initial, xor_,
                                                reflect_input, reflect_remainder)],
                   1)
       ELSE Raise(L1, UnsupportedWidth)

bcrc_optimal(Optimal, L) ==
  LET L1 == newudata(L)
      h == Top(L1).h
  IN Return([L1 EXCEPT !.ud[h] = CrcOptimal(Optimal)], 1)

\* faulty variant: bcrc_reset that checks the handle and forgets ud->reset()
bcrc_reset_forgotten(L) ==
  IF checkudata(L) # "" THEN Raise(L, checkudata(L)) ELSE Return(L, 1)

bcrc_reset(L) ==
  IF checkudata(L) # "" THEN Raise(L, checkudata(L))
  ELSE LET h == Arg(L, 1).h
       IN Return([L EXCEPT !.ud[h] = Crc_reset(@), !.fed[h] = <<>>], 1)

bcrc_process(L) ==
  IF checkudata(L) # "" THEN Raise(L, checkudata(L))
  ELSE
    LET h == Arg(L, 1).h
        sub == v_checksubstring(L, 2)
    IN IF sub.err # "" THEN Raise(L, sub.err)
       ELSE Return([L EXCEPT !.ud[h] = Crc_process_bytes(@, Memory(sub)),
                             !.fed[h] = IF sub.lp = 0 THEN @
                                        ELSE Append(@, Memory(sub)),
                             !.oob = @ \/ ~InBounds(sub),
                             !.stack = <<L.stack[1]>>],
                   1)

\* the uintmax_t checksum as the lua_Integer lua_pushinteger pushes
ChecksumNum(c) == Num(BitsVal(Crc_checksum(c), 17, 16), BitsVal(Crc_checksum(c), 1, 16))

\* faulty variant: bcrc_checksum that resets the engine once it has read it
bcrc_checksum_resetting(L) ==
  IF checkudata(L) # "" THEN Raise(L, checkudata(L))
  ELSE LET h == Arg(L, 1).h
       IN Return([L EXCEPT !.stack = Append(@, LNum(ChecksumNum(L.ud[h]))),
                           !.ud[h] = Crc_reset(@), !.fed[h] = <<>>],
                 1)

bcrc_checksum(L) ==
  IF checkudata(L) # "" THEN Raise(L, checkudata(L))
  ELSE LET h == Arg(L, 1).h
       IN Return([L EXCEPT !.stack = Append(@, LNum(ChecksumNum(L.ud[h])))], 1)

\* faulty variant: bcrc_call without its bcrc_reset
bcrc_call_noreset(L) ==
  LET r2 == bcrc_process(L)
  IN IF r2.err # "" THEN r2 ELSE bcrc_checksum(r2.L)

bcrc_call(L) ==
  LET r1 == bcrc_reset(L)
      r2 == bcrc_process(r1.L)
  IN IF r1.err # "" THEN r1
     ELSE IF r2.err # "" THEN r2
     ELSE bcrc_checksum(r2.L)

\* faulty variant: bcrc_gc that goes through checkudata
bcrc_gc_checked(L) ==
  IF checkudata(L) # "" THEN Raise(L, checkudata(L))
  ELSE LET h == Arg(L, 1).h
       IN Return([L EXCEPT !.ud[h] = [NoCrc("NULL") EXCEPT !.ref = L.ud[h].ref],
                           !.fed[h] = <<>>],
                 0)

bcrc_gc(L) ==
  IF Arg(L, 1).t # "userdata" THEN Raise(L, TypeError)
  ELSE LET h == Arg(L, 1).h
       IN Return([L EXCEPT !.ud[h] = [NoCrc("NULL") EXCEPT !.ref = L.ud[h].ref],
                           !.fed[h] = <<>>],
                 0)

----------------------------------------------------------------------------
(* The calls a script makes *)

\* bound on the positions a script passes as start and end
MaxPos == 3

\* bound on the bytes an engine is handed by process() between two resets
MaxFed == 2

\* "123456789"
CheckMessage == <<49, 50, 51, 52, 53, 54, 55, 56, 57>>

Short == <<1, 255>>

Positions == {LNil} \cup {LInt(p) : p \in (-MaxPos)..MaxPos}

\* bytes, start, end of process() and of the single call; NoString has no bytes
NoString == <<LNil, LNil, LNil>>

ScriptArgs == {<<LStr(Short), LNil, LNil>>, NoString}

EngineArgs ==
  {<<LStr(Short), s, e>> : s \in {LNil, LInt(2)}, e \in {LNil, LInt(1)}}
    \cup {NoString}

EngineCallArgs == EngineArgs \cup {<<LStr(CheckMessage), LNil, LNil>>}

RangeArgs == {LStr(<<>>), LStr(Short)} \X Positions \X Positions

\* bits, poly, initial, xor, reflect_input, reflect_remainder of bcrc.new()
Generic8 == <<LInt(8), LInt(7)>>

Generic24 ==
  <<LInt(24), LInt(8801531), LInt(11994318), LNum(Num(65535, 65535)),
    LBool(FALSE), LInt(0)>>

NewArgs ==
  { Generic8, Generic24,
    <<LInt(12), LInt(2063)>>,
    <<LInt(0), LInt(1)>>,
    <<LInt(64), LInt(27)>>,
    <<LInt(-16), LInt(4129), LInt(0), LInt(0), LBool(TRUE), LBool(TRUE)>> }

OptimalTypes == {crc_16_type, crc_ccitt_type, crc_xmodem_type, crc_32_type}

\* the bcrc.new() call each builtin is documented to be an optimal
\* implementation of
DocArgs(type) ==
  IF type = "crc_16_type"
  THEN <<LInt(16), LInt(32773), LInt(0), LInt(0), LBool(TRUE), LBool(TRUE)>>
  ELSE IF type = "crc_ccitt_type"
  THEN <<LInt(16), LInt(4129), LInt(65535), LInt(0), LBool(FALSE), LBool(FALSE)>>
  ELSE IF type = "crc_xmodem_type"
  THEN <<LInt(16), LInt(33800), LInt(0), LInt(0), LBool(TRUE), LBool(TRUE)>>
  ELSE <<LInt(32), LNum(Num(1217, 7607)), LNum(Num(65535, 65535)),
         LNum(Num(65535, 65535)), LBool(TRUE), LBool(TRUE)>>

RECURSIVE Flatten(_)
\* the bytes of a sequence of byte ranges
Flatten(chunks) ==
  IF chunks = <<>> THEN <<>> ELSE Head(chunks) \o Flatten(Tail(chunks))

\* What the script sees of a call: the error raised, or the value returned.
\* pre is the state of the slot the call was made on, and had whether its
\* engine had been handed bytes, both before the call.
Result(op, self, pre, had, args, r) ==
  [op |-> op, self |-> self, pre |-> pre, had |-> had, args |-> args,
   err |-> r.err,
   val |-> IF r.err = "" /\ r.nres = 1 THEN Top(r.L) ELSE LNil,
   oob |-> r.L.oob]

NoResult ==
  [op |-> "", self |-> 0, pre |-> "", had |-> FALSE, args |-> <<>>,
   err |-> "", val |-> LNil,
   oob |-> FALSE]

HasFree == \E h \in Handles : ud[h].st = "none"

\* a constructor's userdata stays referenced by the script when it was returned
Construct(op, args, call) ==
  \E r \in {call} :
    LET h == IF r.L.stack # <<>> /\ Top(r.L).t = "userdata" THEN Top(r.L).h ELSE 0
    IN /\ ud' = IF r.err = "" THEN [r.L.ud EXCEPT ![h].ref = TRUE] ELSE r.L.ud
       /\ fed' = r.L.fed
       /\ ret' = Result(op, h, "none", FALSE, args, r)

\* crc = bcrc.new(...)
New(args) ==
  /\ HasFree
  /\ Construct("new", args, bcrc_new(LuaState(ud, fed, args)))

\* crc = bcrc.crc16() / ccitt() / xmodem() / crc32()
Optimal(o) ==
  /\ HasFree
  /\ Construct("optimal", <<>>, bcrc_optimal(o, LuaState(ud, fed, <<>>)))

Method(op, h, args, call) ==
  \E r \in {call} :
    /\ ud' = r.L.ud
    /\ fed' = r.L.fed
    /\ ret' = Result(op, h, ud[h].st, fed[h] # <<>>, args, r)

\* crc:reset()
Reset(h) ==
  /\ ud[h].ref
  /\ Method("reset", h, <<>>, bcrc_reset(LuaState(ud, fed, <<LUd(h)>>)))

\* crc:process(bytes, start, end)
Process(h, a) ==
  /\ ud[h].ref
  /\ \E r \in {bcrc_process(LuaState(ud, fed, <<LUd(h)>> \o a))} :
       /\ Len(Flatten(r.L.fed[h])) <= MaxFed \/ r.L.fed[h] = fed[h]
       /\ Method("process", h, a, r)

\* crc:checksum()
Checksum(h) ==
  /\ ud[h].ref
  /\ Method("checksum", h, <<>>, bcrc_checksum(LuaState(ud, fed, <<LUd(h)>>)))

\* crc(bytes, start, end)
Call(h, a) ==
  /\ ud[h].ref
  /\ Method("call", h, a, bcrc_call(LuaState(ud, fed, <<LUd(h)>> \o a)))

\* crc:__gc(), the finalizer called by the script
Gc(h) ==
  /\ ud[h].ref
  /\ Method("gc", h, <<>>, bcrc_gc(LuaState(ud, fed, <<LUd(h)>>)))

\* the collector finalizes a userdata the script no longer refers to (the
\* last reference is dropped here) and frees it
Collect(h) ==
  /\ ud[h].st # "none"
  /\ \E r \in {bcrc_gc(LuaState(ud, fed, <<LUd(h)>>))} :
       /\ ud' = [r.L.ud EXCEPT ![h] = NoCrc("none")]
       /\ fed' = r.L.fed
       /\ ret' = Result("collect", h, ud[h].st, fed[h] # <<>>, <<>>, r)

----------------------------------------------------------------------------
(* Spec: a script that builds, uses, destroys and drops engines *)

NoUserdata == [h \in Handles |-> NoCrc("none")]

NothingFed == [h \in Handles |-> <<>>]

Init ==
  /\ ud = NoUserdata
  /\ fed = NothingFed
  /\ ret = NoResult

Next ==
  \/ \E a \in NewArgs : New(a)
  \/ \E o \in OptimalTypes : Optimal(o)
  \/ \E h \in Handles : Reset(h)
  \/ \E h \in Handles : \E a \in ScriptArgs : Process(h, a)
  \/ \E h \in Handles : Checksum(h)
  \/ \E h \in Handles : \E a \in ScriptArgs : Call(h, a)
  \/ \E h \in Handles : Gc(h)
  \/ \E h \in Handles : Collect(h)

Spec == Init /\ [][Next]_vars

----------------------------------------------------------------------------
(* SpecEngine: two engines built side by side and then used.  The first is *)
(* a builtin and the second the bcrc.new() call it is documented as, or    *)
(* the two are generic engines of 8 and 24 bits.                           *)

\* the heap after the script held on to what two constructor calls returned
Built(r) == [h \in Handles |-> [r.L.ud[h] EXCEPT !.ref = (r.L.ud[h].st = "obj")]]

BuiltPairs ==
  { Built(bcrc_new(LuaState(
        Built(bcrc_optimal(o, LuaState(NoUserdata, NothingFed, <<>>))),
        NothingFed, DocArgs(o.type)))) : o \in OptimalTypes }
  \cup
  { Built(bcrc_new(LuaState(
        Built(bcrc_new(LuaState(NoUserdata, NothingFed, Generic8))),
        NothingFed, Generic24))) }

InitEngine ==
  /\ ud \in BuiltPairs
  /\ fed = NothingFed
  /\ ret = NoResult

NextEngine ==
  \/ \E h \in Handles : Reset(h)
  \/ \E h \in Handles : \E a \in EngineArgs : Process(h, a)
  \/ \E h \in Handles : Checksum(h)
  \/ \E h \in Handles : \E a \in EngineCallArgs : Call(h, a)

SpecEngine == InitEngine /\ [][NextEngine]_vars

----------------------------------------------------------------------------
(* SpecRange: one engine handed every range of two short strings *)

BuiltSingles ==
  { Built(bcrc_optimal(o, LuaState(NoUserdata, NothingFed, <<>>))) :
      o \in {crc_16_type} }
  \cup
  { Built(bcrc_new(LuaState(NoUserdata, NothingFed, a))) :
      a \in {Generic8} }

InitRange ==
  /\ ud \in BuiltSingles
  /\ fed = NothingFed
  /\ ret = NoResult

NextRange ==
  \/ \E h \in Handles : Reset(h)
  \/ \E h \in Handles : Checksum(h)
  \/ \E h \in Handles : \E a \in RangeArgs : Process(h, a)
  \/ \E h \in Handles : \E a \in ScriptArgs : Call(h, a)

SpecRange == InitRange /\ [][NextRange]_vars

----------------------------------------------------------------------------
(* Properties *)

\* the engines as their constructors leave them
AsBuilt == {p[h] : p \in BuiltPairs \cup BuiltSingles, h \in Handles}

SameParams(e, c) == [e EXCEPT !.rem = <<>>] = [c EXCEPT !.rem = <<>>]

\* the engine c as it was when it was constructed
Fresh(c) == CHOOSE e \in AsBuilt : SameParams(e, c)

\* the generic engine bcrc.new() builds from the documented arguments of o
DocEngine(o) ==
  Built(bcrc_new(LuaState(NoUserdata, NothingFed, DocArgs(o.type))))[1]

\* C1: a builtin engine (crc16, ccitt, xmodem, crc32) and the generic engine
\* built by new() with the builtin's documented parameters, handed the same
\* bytes, have the same checksum, and the single call on either returns it.
BuiltinEqualsGeneric ==
  \A o \in OptimalTypes : \A h1, h2 \in Handles :
    ( /\ ud[h1].st = "obj" /\ ud[h1].cls = "CrcOptimal" /\ ud[h1].type = o.type
      /\ ud[h2].st = "obj" /\ SameParams(ud[h2], DocEngine(o))
      /\ Flatten(fed[h1]) = Flatten(fed[h2]) )
    => /\ ChecksumNum(ud[h1]) = ChecksumNum(ud[h2])
       /\ (ret.op = "call" /\ ret.err = "" /\ ret.self \in {h1, h2})
            => ret.val = LNum(ChecksumNum(ud[h1])) /\ ret.val = LNum(ChecksumNum(ud[h2]))

\* crc32() and new(32, 0x04C11DB7, 0xFFFFFFFF, 0xFFFFFFFF, true, true) both
\* computed over "123456789", the last of the two by the single call
BuiltinEqualsGenericReached ==
  \E h1, h2 \in Handles :
    /\ ud[h1].st = "obj" /\ ud[h1].type = "crc_32_type"
    /\ ud[h2].st = "obj" /\ SameParams(ud[h2], DocEngine(crc_32_type))
    /\ Flatten(fed[h1]) = CheckMessage /\ Flatten(fed[h2]) = CheckMessage
    /\ ret.op = "call" /\ ret.self = h2 /\ ret.val = LNum(Num(52212, 14630))
    /\ ChecksumNum(ud[h1]) = Num(52212, 14630)

\* C2: whatever ranges an engine was handed since it was built or reset, its
\* register is the one a single process_bytes of all their bytes gives; so
\* process(a); process(b) is process(a ++ b), and an empty range changes
\* nothing.
IncrementalEqualsMonolithic ==
  \A h \in Handles :
    ud[h].st = "obj"
    => /\ ud[h] = Crc_process_bytes(Crc_reset(ud[h]), Flatten(fed[h]))
       /\ ud[h] = Crc_process_bytes(ud[h], <<>>)

\* an engine handed two non-empty ranges by two process() calls
IncrementalReached ==
  \E h \in Handles :
    /\ ud[h].st = "obj" /\ Len(fed[h]) = 2 /\ Flatten(fed[h]) = Short
    /\ ret.op = "process" /\ ret.self = h /\ ret.err = ""

\* C3: checksum() leaves every engine as it was, and a checksum() that
\* follows a checksum() of the same engine returns the same value.
ChecksumIsPureRead ==
  [][\A h \in Handles :
       Checksum(h)
       => /\ ud' = ud
          /\ fed' = fed
          /\ (ret.op = "checksum" /\ ret.self = h) => ret' = ret]_vars

\* checksum() returned the checksum of an engine that had been handed bytes
ChecksumReached ==
  /\ ret.op = "checksum" /\ ret.err = "" /\ ret.had
  /\ ud[ret.self].st = "obj" /\ fed[ret.self] # <<>>
  /\ ret.val = LNum(ChecksumNum(ud[ret.self]))

\* C4: reset() puts the engine back as it was constructed, whatever it was
\* handed before; the checksum() after it returns the checksum of a freshly
\* constructed engine that was handed nothing, and a second reset() changes
\* nothing.
ResetRestoresFresh ==
  [][\A h \in Handles :
       /\ (Reset(h) /\ ud[h].st = "obj")
            => ret'.err = "" /\ ud'[h] = Fresh(ud[h]) /\ fed'[h] = <<>>
       /\ (ret.op = "reset" /\ ret.self = h /\ ret.err = "")
            => /\ Checksum(h) => ret'.val = LNum(ChecksumNum(Fresh(ud[h])))
               /\ Reset(h) => ud' = ud /\ fed' = fed]_vars

\* reset() succeeded on an engine that had been handed bytes
ResetReached ==
  /\ ret.op = "reset" /\ ret.err = "" /\ ret.had
  /\ ud[ret.self] = Fresh(ud[ret.self])

\* the stack of the call that follows r in a chain: the value r returned,
\* then the arguments a
Chained(r, a) == LuaState(r.L.ud, r.L.fed, <<Top(r.L)>> \o a)

\* C5: crc(bytes, start, end) returns what crc:reset():process(bytes, start,
\* end):checksum() returns and leaves the engines as that chain leaves them;
\* the chain's process() starts from the engine as it was constructed, so the
\* result owes nothing to what the engine was handed before.
SingleCallIsChain ==
  [][\A h \in Handles :
       (ret'.op = "call" /\ ret'.self = h)
       => \A r1 \in {bcrc_reset(LuaState(ud, fed, <<LUd(h)>>))} :
          \A r2 \in {IF r1.err # "" THEN r1
                      ELSE bcrc_process(Chained(r1, ret'.args))} :
          \A r3 \in {IF r2.err # "" THEN r2
                      ELSE bcrc_checksum(Chained(r2, <<>>))} :
            /\ ret'.err = r3.err
            /\ ret'.val = (IF r3.err = "" THEN Top(r3.L) ELSE LNil)
            /\ ud' = r3.L.ud
            /\ fed' = r3.L.fed
            /\ ud[h].st = "obj"
                 => /\ r1.L.ud = [ud EXCEPT ![h] = Fresh(ud[h])]
                    /\ r1.L.fed = [fed EXCEPT ![h] = <<>>]]_vars

\* the single call returned a checksum on an engine that had been handed
\* bytes before
SingleCallReached ==
  /\ ret.op = "call" /\ ret.err = "" /\ ret.had /\ ret.val.t = "number"
  /\ fed[ret.self] # <<>>

\* C6: on a handle whose engine was destroyed, reset, process, checksum and
\* the single call raise "bcrc state has been destroyed" and change nothing;
\* the handle stays destroyed until the collector frees it.
DestroyedHandleRejected ==
  [][\A h \in Handles :
       (ud[h].st = "NULL" /\ ud[h].ref)
       => /\ ( \/ Reset(h) \/ Checksum(h)
               \/ Process(h, ret'.args)
               \/ Call(h, ret'.args) )
              => ret'.err = DestroyedHandle /\ ud' = ud /\ fed' = fed
          /\ ud'[h].st \in {"NULL", "none"}]_vars

\* the single call was made on a destroyed handle
DestroyedHandleReached ==
  /\ ret.op = "call" /\ ret.pre = "NULL" /\ ret.err = DestroyedHandle
  /\ ud[ret.self].st = "NULL"

\* C7 as stated: the finalizer called on a destroyed handle raises
\* "bcrc state has been destroyed".
DoubleDestructionFails ==
  (ret.op = "gc" /\ ret.pre = "NULL") => ret.err = DestroyedHandle

\* C7: the finalizer on a handle that is already destroyed, called by the
\* script or by the collector, raises no error; called by the script it
\* leaves the handle destroyed.
DoubleDestructionSilent ==
  (ret.op \in {"gc", "collect"} /\ ret.pre = "NULL")
  => /\ ret.err = ""
     /\ ret.val = LNil
     /\ ret.op = "gc" => ud[ret.self].st = "NULL"

\* the script called the finalizer on a handle it had already destroyed
DoubleDestructionReached ==
  /\ ret.op = "gc" /\ ret.pre = "NULL" /\ ret.err = ""
  /\ ud[ret.self].st = "NULL" /\ ud[ret.self].ref

\* C8: bcrc.new() with a width outside {8, 16, 24, 32} raises "unsupported
\* crc bit width", returns nothing, leaves the userdata it created without
\* an engine and unreferenced and every other userdata as it was; with a
\* width in {8, 16, 24, 32} it returns a new engine of that width.
WidthChecked ==
  [][(ret'.op = "new" /\ New(ret'.args))
       => LET a == ret'.args
              width == ToInteger(a[1].n)
          IN IF width \in {8, 16, 24, 32}
             THEN /\ ret'.err = ""
                  /\ ret'.val.t = "userdata"
                  /\ ud[ret'.val.h].st = "none"
                  /\ ud'[ret'.val.h].st = "obj"
                  /\ ud'[ret'.val.h].Bits = width
                  /\ \A h \in Handles \ {ret'.val.h} : ud'[h] = ud[h]
             ELSE /\ ret'.err = UnsupportedWidth
                  /\ ret'.val = LNil
                  /\ fed' = fed
                  /\ \A h \in Handles :
                       IF ud[h].st = "none"
                       THEN ud'[h].st \in {"none", "NULL"} /\ ~ud'[h].ref
                       ELSE ud'[h] = ud[h]]_vars

\* bcrc.new() refused a width while an engine that had been handed bytes
\* existed
WidthRefusedReached ==
  /\ ret.op = "new" /\ ret.err = UnsupportedWidth
  /\ ud[ret.self].st = "NULL" /\ ~ud[ret.self].ref
  /\ \E h \in Handles : ud[h].st = "obj" /\ fed[h] # <<>>

\* the ccitt engine's single call over "123456789" returned v
CcittCheck(v) ==
  \A h \in Handles :
    ( /\ ud[h].st = "obj" /\ ud[h].type = "crc_ccitt_type"
      /\ Flatten(fed[h]) = CheckMessage
      /\ ret.op = "call" /\ ret.self = h /\ ret.err = "" )
    => ret.val = LNum(v)

\* C9 as stated: ccitt over "123456789" yields 0x31C3.
CcittCheckIs31C3 == CcittCheck(Num(0, 12739))

\* C9: ccitt over "123456789" yields 0x29B1.
CcittCheckIs29B1 == CcittCheck(Num(0, 10673))

\* the ccitt engine computed "123456789" by the single call
CcittCheckReached ==
  \E h \in Handles :
    /\ ud[h].st = "obj" /\ ud[h].type = "crc_ccitt_type"
    /\ Flatten(fed[h]) = CheckMessage
    /\ ret.op = "call" /\ ret.self = h /\ ret.val = LNum(Num(0, 10673))

\* the position the claim derives from p in a string of len bytes
Relative(p, len) ==
  LET q == IF p < 0 THEN p + len + 1 ELSE p IN IF q < 0 THEN 0 ELSE q

\* C10: process(bytes, start, end) hands the engine the bytes s..e of the
\* string, s being the relative start raised to 1 and e the relative end
\* lowered to the length, and nothing outside the string; when s > e it
\* changes nothing.
RangeSelected ==
  [][\A h \in Handles :
       (ret'.op = "process" /\ ret'.self = h /\ Process(h, ret'.args))
       => LET a == ret'.args
              bytes == a[1].s
              len == Len(bytes)
              start == IF a[2].t = "nil" THEN 1 ELSE ToInteger(a[2].n)
              end == IF a[3].t = "nil" THEN -1 ELSE ToInteger(a[3].n)
              s == IF Relative(start, len) < 1 THEN 1 ELSE Relative(start, len)
              e == IF Relative(end, len) > len THEN len ELSE Relative(end, len)
          IN /\ ret'.err = ""
             /\ ~ret'.oob
             /\ IF s <= e
                THEN /\ 1 <= s /\ e <= len
                     /\ fed'[h] = Append(fed[h], SubSeq(bytes, s, e))
                     /\ Len(SubSeq(bytes, s, e)) = e - s + 1
                     /\ ud' = [ud EXCEPT ![h] =
                                 Crc_process_bytes(@, SubSeq(bytes, s, e))]
                ELSE ud' = ud /\ fed' = fed]_vars

\* process() handed an engine the last byte of a string after its first
RangeReached ==
  /\ ret.op = "process" /\ ret.err = "" /\ ~ret.oob
  /\ fed[ret.self] = <<<<1>>, <<255>>>>

====
